---------------------------- MODULE Spec2Model ----------------------------
(***************************************************************************)
(* Appointment booking, lifecycle and reminder sweeps of the clinic        *)
(* backend (routes/appointments.js, routes/admin.js, models/Appointment.js,*)
(* middleware/auth.js, jobs/reminderJob.js).                               *)
(*                                                                         *)
(* Instants are minutes since midnight of day 0.  A stored `date` is the   *)
(* midnight of a day (the client sends a date-only ISO string); the server *)
(* clock is taken to run in the zone of those midnights, so that           *)
(* setHours(h, m) on a date yields date + h*60 + m.  Strings that the code *)
(* parses (the time of day) are sequences of one-character strings.        *)
(***************************************************************************)
EXTENDS Integers, Sequences, FiniteSets, TLC

VARIABLES
    appointments,   \* the Appointment collection, in insertion order (index = _id)
    now,            \* the server clock, new Date()
    response,       \* the result of the handler or job run in progress, until delivered
    nwrites,        \* number of handler and job runs that changed the store
    isRunning,      \* ReminderJob.isRunning
    jobs,           \* ReminderJob.jobs, the registered cron tasks
    creating,       \* per create request in flight: the body that passed the conflict check
    dispatching,    \* per dispatch run in flight: the documents it loaded and has yet to handle
    notifications,  \* per appointment: the number of e-mails the e-mail service accepted
    manualTriggers  \* per appointment: the number of manual reminders issued for it

\* the scheduler object
schedulerVars == <<isRunning, jobs>>

\* the requests and job runs that are between two of their awaits, and the
\* history of the e-mail service
flightVars == <<creating, dispatching, notifications, manualTriggers>>

vars == <<appointments, now, response, nwrites, isRunning, jobs,
          creating, dispatching, notifications, manualTriggers>>

----------------------------------------------------------------------------
(* Bounds of the model *)

MaxAppts == 2
MaxTicks == 2
MaxWrites == 2
MaxNotifications == 1
MaxInFlight == 2

----------------------------------------------------------------------------
(* Time *)

MinutesPerHour == 60
MinutesPerDay == 24 * MinutesPerHour
TickStep == 24 * MinutesPerHour
StartOfClock == 9 * MinutesPerHour

NoDate == 0 - 1
NoString == <<>>

----------------------------------------------------------------------------
(* Strings: the time of day as the code sees it *)

Digits == <<"0", "1", "2", "3", "4", "5", "6", "7", "8", "9">>

IsDigit(c) == \E i \in 1..10 : Digits[i] = c

DigitVal(c) ==
    CASE c = "0" -> 0 [] c = "1" -> 1 [] c = "2" -> 2 [] c = "3" -> 3
      [] c = "4" -> 4 [] c = "5" -> 5 [] c = "6" -> 6 [] c = "7" -> 7
      [] c = "8" -> 8 [] c = "9" -> 9

\* /^([0-1]?[0-9]|2[0-3]):[0-5][0-9]$/
MatchesTime(s) ==
    \/ /\ Len(s) = 5
       /\ \/ s[1] \in {"0", "1"} /\ IsDigit(s[2])
          \/ s[1] = "2" /\ s[2] \in {"0", "1", "2", "3"}
       /\ s[3] = ":"
       /\ s[4] \in {"0", "1", "2", "3", "4", "5"}
       /\ IsDigit(s[5])
    \/ /\ Len(s) = 4
       /\ IsDigit(s[1])
       /\ s[2] = ":"
       /\ s[3] \in {"0", "1", "2", "3", "4", "5"}
       /\ IsDigit(s[4])

\* index of the first ':' of s, or Len(s) + 1 when there is none
RECURSIVE ColonAt(_, _)
ColonAt(s, i) ==
    IF i > Len(s) THEN i
    ELSE IF s[i] = ":" THEN i
    ELSE ColonAt(s, i + 1)

\* s.split(':')[0] and s.split(':')[1]
SplitHours(s) == SubSeq(s, 1, ColonAt(s, 1) - 1)
SplitMinutes(s) ==
    LET rest == SubSeq(s, ColonAt(s, 1) + 1, Len(s))
    IN  SubSeq(rest, 1, ColonAt(rest, 1) - 1)

\* parseInt of a string of decimal digits
RECURSIVE ParseInt(_)
ParseInt(s) ==
    IF Len(s) = 0 THEN 0
    ELSE 10 * ParseInt(SubSeq(s, 1, Len(s) - 1)) + DigitVal(s[Len(s)])

\* n.toString() for 0 <= n <= 99
NumToString(n) ==
    IF n < 10 THEN <<Digits[n + 1]>>
    ELSE <<Digits[(n \div 10) + 1], Digits[(n % 10) + 1]>>

\* s.padStart(2, '0')
PadStart2(s) == IF Len(s) < 2 THEN <<"0">> \o s ELSE s

----------------------------------------------------------------------------
(* The Appointment document *)

Statuses == {"scheduled", "confirmed", "completed", "cancelled", "no-show"}
ActiveStatuses == {"scheduled", "confirmed"}

Clients == {"alice", "bob"}
Admins == {"admin"}
Users == Clients \cup Admins
NoUser == "nobody"

Role(u) == IF u \in Admins THEN "admin" ELSE "user"

DefaultDuration == 50

\* the instant of a stored date
DateInstant(d) == d * MinutesPerDay

\* virtual 'datetime': the date with setHours(hours, minutes, 0, 0)
Datetime(apt) ==
    DateInstant(apt.date)
        + ParseInt(SplitHours(apt.time)) * MinutesPerHour
        + ParseInt(SplitMinutes(apt.time))

\* virtual 'endTime'
EndTime(apt) == Datetime(apt) + apt.duration


Ids == 1..Len(appointments)

Reminder(at) == [sent |-> FALSE, sentAt |-> NoDate, scheduledFor |-> at]

\* new Appointment({...}) with the schema defaults
NewAppointment(u, d, t, s, rems) ==
    [user |-> u, date |-> d, time |-> t, status |-> s,
     duration |-> DefaultDuration, reminders |-> rems,
     cancellationReason |-> "", cancelledAt |-> NoDate, cancelledBy |-> NoUser,
     sessionNotes |-> ""]

----------------------------------------------------------------------------
(* Document.save(): schema validation, then the pre('save') hook *)

BusinessStartHour == 9
BusinessLastHour == 21

\* validator of the `date` path
DateValidator(d) == DateInstant(d) > now

\* validation that save() runs over the paths of the document
SchemaValid(apt) ==
    /\ DateValidator(apt.date)
    /\ MatchesTime(apt.time)
    /\ apt.status \in Statuses

\* appointmentSchema.pre('save'): TRUE when it calls next() without an error
PreSaveOk(apt) ==
    LET hour == ParseInt(SplitHours(apt.time))
    IN  /\ ~(hour < BusinessStartHour \/ hour > BusinessLastHour)
        /\ ~(Datetime(apt) <= now)

SaveOk(apt) == SchemaValid(apt) /\ PreSaveOk(apt)

----------------------------------------------------------------------------
(* Policy windows *)

CancelWindowHours == 24
RescheduleWindowHours == 12

\* hoursUntilAppointment > h, in minutes
HoursUntilMoreThan(apt, h) == Datetime(apt) - now > h * MinutesPerHour

canBeCancelled(apt) ==
    HoursUntilMoreThan(apt, CancelWindowHours) /\ apt.status = "scheduled"

canBeRescheduled(apt) ==
    HoursUntilMoreThan(apt, RescheduleWindowHours) /\ apt.status = "scheduled"

----------------------------------------------------------------------------
(* Queries *)

\* Appointment.findOne({date, time, status: {$in: ['scheduled', 'confirmed']}}),
\* with _id: {$ne: except} when except is an id
FindActiveAt(d, t, except) ==
    {i \in Ids : /\ i # except
                 /\ appointments[i].date = d
                 /\ appointments[i].time = t
                 /\ appointments[i].status \in ActiveStatuses}

Resp(op, code) == [op |-> op, code |-> code]

\* requireAppointmentAccess: 0 when it calls next(), else the status it sends
AccessCode_anyUser(actor, id) ==
    IF id \notin Ids THEN 404 ELSE 0

AccessCode(actor, id) ==
    IF id \notin Ids THEN 404
    ELSE IF Role(actor) = "admin" THEN 0
    ELSE IF appointments[id].user = actor THEN 0
    ELSE 403

\* requireAdmin: 0 when it calls next(), else the status it sends
AdminCode(actor) == IF Role(actor) # "admin" THEN 403 ELSE 0

----------------------------------------------------------------------------
(* Inputs of the requests *)

\* the dates that requests name: tomorrow and the day after, seen from the start
Dates == {1, 2}

T0900 == <<"0", "9", ":", "0", "0">>
T900 == <<"9", ":", "0", "0">>
T0800 == <<"0", "8", ":", "0", "0">>
T2100 == <<"2", "1", ":", "0", "0">>
T2200 == <<"2", "2", ":", "0", "0">>
TBad == <<"9", "h">>

TimeInputs == {T0900, T900, T2100, T0800, T2200, TBad}
UpdateTimeInputs == {T0900, T900, T2100, T2200, TBad}
AdminCreateTimeInputs == {T0900, TBad, NoString}
ReasonInputs == {"", "ill"}
NotesInputs == {"went well"}
StatusInputs == {"completed", "cancelled", "approved", "scheduled"}
AdminCreateStatusInputs == {"", "completed"}
CreateUsers == {"alice"}
AdminCreateUsers == {"alice"}
AdminRouteActors == {"alice", "admin"}

NoResponse == [op |-> "none", code |-> 0]

\* no handler or job is running: a handler or job runs to its end
Idle == response = NoResponse

\* the end of a handler or job run, after it has set appointments'
Reply(r) ==
    /\ appointments' # appointments => nwrites < MaxWrites
    /\ nwrites' = IF appointments' # appointments THEN nwrites + 1 ELSE nwrites
    /\ response' = r
    /\ now' = now
    /\ UNCHANGED <<schedulerVars, flightVars>>

\* the end of a run of the daily task: no request triggers it, and it runs
\* whatever the requests have done
JobReply(r) ==
    /\ nwrites' = IF appointments' # appointments /\ nwrites < MaxWrites
                  THEN nwrites + 1 ELSE nwrites
    /\ response' = r
    /\ UNCHANGED <<now, schedulerVars, flightVars>>

----------------------------------------------------------------------------
(* POST /api/appointments *)

ReminderOffset24h == 24
ReminderOffset2h == 2

\* the reminder records pushed for an appointment starting at `start`
RemindersFor_notStrict(start) ==
    LET reminder24h == start - ReminderOffset24h * MinutesPerHour
        reminder2h == start - ReminderOffset2h * MinutesPerHour
    IN  (IF reminder24h >= now THEN <<Reminder(reminder24h)>> ELSE <<>>)
        \o (IF reminder2h >= now THEN <<Reminder(reminder2h)>> ELSE <<>>)

RemindersFor(start) ==
    LET reminder24h == start - ReminderOffset24h * MinutesPerHour
        reminder2h == start - ReminderOffset2h * MinutesPerHour
    IN  (IF reminder24h > now THEN <<Reminder(reminder24h)>> ELSE <<>>)
        \o (IF reminder2h > now THEN <<Reminder(reminder2h)>> ELSE <<>>)

\* the express-validator chain of the route (date and time)
CreateInputValid(d, t) == DateInstant(d) > now /\ MatchesTime(t)

\* the conflict query of the route finds a document
ExistingAppointment(d, t) == FindActiveAt(d, t, 0) # {}

CreateDoc(u, d, t) ==
    LET draft == NewAppointment(u, d, t, "scheduled", <<>>)
    IN  [draft EXCEPT !.reminders = RemindersFor(Datetime(draft))]

CreateCode(u, d, t) ==
    IF ~CreateInputValid(d, t) THEN 400
    ELSE IF ExistingAppointment(d, t) THEN 409
    ELSE IF ~SaveOk(CreateDoc(u, d, t)) THEN 500
    ELSE 201

CreateAppointment(u, d, t) ==
    /\ Idle
    /\ Len(appointments) < MaxAppts
    /\ LET code == CreateCode(u, d, t)
       IN  IF code = 201
           THEN /\ appointments' = Append(appointments, CreateDoc(u, d, t))
                /\ Reply(Resp("create", code))
           ELSE /\ appointments' = appointments
                /\ Reply(Resp("create", code))

----------------------------------------------------------------------------
(* POST /api/admin/appointments *)

AdminCreateDoc(u, d, t, s) ==
    NewAppointment(u, d, t, IF s = "" THEN "scheduled" ELSE s, <<>>)

AdminCreateCode(actor, u, d, t, s) ==
    IF AdminCode(actor) # 0 THEN 403
    ELSE IF Len(t) = 0 THEN 400
    ELSE IF ~SaveOk(AdminCreateDoc(u, d, t, s)) THEN 500
    ELSE 201

AdminCreateAppointment(actor, u, d, t, s) ==
    /\ Idle
    /\ Len(appointments) < MaxAppts
    /\ LET code == AdminCreateCode(actor, u, d, t, s)
       IN  IF code = 201
           THEN /\ appointments' = Append(appointments, AdminCreateDoc(u, d, t, s))
                /\ Reply(Resp("adminCreate", code))
           ELSE /\ appointments' = appointments
                /\ Reply(Resp("adminCreate", code))

----------------------------------------------------------------------------
(* GET /api/appointments/:id *)

GetCode(actor, id) ==
    IF AccessCode(actor, id) # 0 THEN AccessCode(actor, id) ELSE 200

GetAppointment(actor, id) ==
    /\ Idle
    /\ appointments' = appointments
    /\ Reply(Resp("get", GetCode(actor, id)))

----------------------------------------------------------------------------
(* PUT /api/appointments/:id.  d = NoDate and t = NoString are an absent    *)
(* date and time of the request body.                                      *)

UpdateInputValid(d, t) == t = NoString \/ MatchesTime(t)

CheckDate(id, d) == IF d # NoDate THEN d ELSE appointments[id].date
CheckTime(id, t) == IF t # NoString THEN t ELSE appointments[id].time

\* the conflict query of the route finds a document
UpdateConflict_includingSelf(id, d, t) ==
    FindActiveAt(CheckDate(id, d), CheckTime(id, t), 0) # {}

UpdateConflict(id, d, t) ==
    FindActiveAt(CheckDate(id, d), CheckTime(id, t), id) # {}

\* findByIdAndUpdate(..., {runValidators: true}): validators of the updated paths
UpdateValidatorsOk(d, t) ==
    /\ d # NoDate => DateValidator(d)
    /\ t # NoString => MatchesTime(t)

UpdateCode(actor, id, d, t) ==
    IF AccessCode(actor, id) # 0 THEN AccessCode(actor, id)
    ELSE IF ~UpdateInputValid(d, t) THEN 400
    ELSE IF ~canBeRescheduled(appointments[id]) THEN 403
    ELSE IF (d # NoDate \/ t # NoString) /\ UpdateConflict(id, d, t) THEN 409
    ELSE IF ~UpdateValidatorsOk(d, t) THEN 500
    ELSE 200

UpdateAppointment(actor, id, d, t) ==
    /\ Idle
    /\ LET code == UpdateCode(actor, id, d, t)
       IN  /\ appointments' =
                IF code = 200
                THEN [appointments EXCEPT ![id].date = CheckDate(id, d),
                                          ![id].time = CheckTime(id, t)]
                ELSE appointments
           /\ Reply(Resp("update", code))

----------------------------------------------------------------------------
(* POST /api/appointments/:id/cancel *)

\* appointmentSchema.methods.cancel, before save()
CancelledDoc(apt, reason, by) ==
    [apt EXCEPT !.status = "cancelled",
                !.cancellationReason = reason,
                !.cancelledAt = now,
                !.cancelledBy = by]

CancelCode(actor, id, reason) ==
    IF AccessCode(actor, id) # 0 THEN AccessCode(actor, id)
    ELSE IF reason = "" THEN 400
    ELSE IF ~canBeCancelled(appointments[id]) THEN 403
    ELSE IF ~SaveOk(CancelledDoc(appointments[id], reason, actor)) THEN 500
    ELSE 200

CancelAppointment(actor, id, reason) ==
    /\ Idle
    /\ LET code == CancelCode(actor, id, reason)
       IN  /\ appointments' =
                IF code = 200
                THEN [appointments EXCEPT
                        ![id] = CancelledDoc(appointments[id], reason, actor)]
                ELSE appointments
           /\ Reply(Resp("cancel", code))

----------------------------------------------------------------------------
(* POST /api/appointments/:id/confirm *)

\* appointmentSchema.methods.confirm, before save()
ConfirmedDoc(apt) == [apt EXCEPT !.status = "confirmed"]

ConfirmCode(actor, id) ==
    IF AdminCode(actor) # 0 THEN 403
    ELSE IF AccessCode(actor, id) # 0 THEN AccessCode(actor, id)
    ELSE IF ~SaveOk(ConfirmedDoc(appointments[id])) THEN 500
    ELSE 200

ConfirmAppointment(actor, id) ==
    /\ Idle
    /\ LET code == ConfirmCode(actor, id)
       IN  /\ appointments' =
                IF code = 200
                THEN [appointments EXCEPT ![id] = ConfirmedDoc(appointments[id])]
                ELSE appointments
           /\ Reply(Resp("confirm", code))

----------------------------------------------------------------------------
(* POST /api/appointments/:id/complete *)

\* appointmentSchema.methods.complete, before save()
CompletedDoc(apt, sessionNotes) ==
    [apt EXCEPT !.status = "completed", !.sessionNotes = sessionNotes]

CompleteCode(actor, id, sessionNotes) ==
    IF AdminCode(actor) # 0 THEN 403
    ELSE IF AccessCode(actor, id) # 0 THEN AccessCode(actor, id)
    ELSE IF ~SaveOk(CompletedDoc(appointments[id], sessionNotes)) THEN 500
    ELSE 200

CompleteAppointment(actor, id, sessionNotes) ==
    /\ Idle
    /\ LET code == CompleteCode(actor, id, sessionNotes)
       IN  /\ appointments' =
                IF code = 200
                THEN [appointments EXCEPT
                        ![id] = CompletedDoc(appointments[id], sessionNotes)]
                ELSE appointments
           /\ Reply(Resp("complete", code))

----------------------------------------------------------------------------
(* PATCH /api/admin/appointments/:id/status *)

OverrideStatuses == {"pending", "approved", "rejected", "completed", "cancelled"}

StatusDoc(apt, s) == [apt EXCEPT !.status = s]

SetStatusCode(actor, id, s) ==
    IF AdminCode(actor) # 0 THEN 403
    ELSE IF s \notin OverrideStatuses THEN 400
    ELSE IF id \notin Ids THEN 404
    ELSE IF ~SaveOk(StatusDoc(appointments[id], s)) THEN 500
    ELSE 200

AdminSetStatus(actor, id, s) ==
    /\ Idle
    /\ LET code == SetStatusCode(actor, id, s)
       IN  /\ appointments' =
                IF code = 200
                THEN [appointments EXCEPT ![id] = StatusDoc(appointments[id], s)]
                ELSE appointments
           /\ Reply(Resp("setStatus", code))

----------------------------------------------------------------------------
(* GET /api/appointments/available-slots (the handler registered for the   *)
(* path; the router registers GET /:id before it)                          *)

SlotFirstHour == 9
SlotEndHour == 22
SlotMinuteStep == 50

TimeString(hour, minute) ==
    PadStart2(NumToString(hour)) \o <<":">> \o PadStart2(NumToString(minute))

\* for (minute = m; minute < 60; minute += 50) allSlots.push(timeString)
RECURSIVE MinuteLoop(_, _)
MinuteLoop(hour, minute) ==
    IF minute < MinutesPerHour
    THEN <<TimeString(hour, minute)>> \o MinuteLoop(hour, minute + SlotMinuteStep)
    ELSE <<>>

\* for (hour = h; hour < 22; hour++) ...
RECURSIVE HourLoop(_)
HourLoop(hour) ==
    IF hour < SlotEndHour
    THEN MinuteLoop(hour, 0) \o HourLoop(hour + 1)
    ELSE <<>>

AllSlots == HourLoop(SlotFirstHour)

\* existingAppointments.map(apt => apt.time)
TakenSlots(d) ==
    {appointments[i].time : i \in
        {j \in Ids : /\ DateInstant(appointments[j].date) >= DateInstant(d)
                     /\ DateInstant(appointments[j].date) < DateInstant(d + 1)
                     /\ appointments[j].status \in ActiveStatuses}}

AvailableSlots(d) == SelectSeq(AllSlots, LAMBDA slot : slot \notin TakenSlots(d))

\* res.json({success: true, data: {date, availableSlots}})
SlotsResponse(d) ==
    [op |-> "slots", code |-> 200, date |-> d, availableSlots |-> AvailableSlots(d)]

GetAvailableSlots(d) ==
    /\ Idle
    /\ appointments' = appointments
    /\ Reply(SlotsResponse(d))

----------------------------------------------------------------------------
(* ReminderJob.checkAndSendReminders, every 5 minutes *)

IsDue(r) == ~r.sent /\ r.scheduledFor <= now

\* the find() of the sweep
PendingAppointments ==
    {i \in Ids :
        /\ appointments[i].status \in ActiveStatuses
        /\ \E k \in 1..Len(appointments[i].reminders) :
                appointments[i].reminders[k].sent = FALSE
        /\ \E k \in 1..Len(appointments[i].reminders) :
                appointments[i].reminders[k].scheduledFor <= now}

\* reminders.findIndex(r => !r.sent && r.scheduledFor <= now), 0 for -1
ReminderIndex(apt) ==
    IF \E k \in 1..Len(apt.reminders) : IsDue(apt.reminders[k])
    THEN CHOOSE k \in 1..Len(apt.reminders) :
            /\ IsDue(apt.reminders[k])
            /\ \A j \in 1..(k - 1) : ~IsDue(apt.reminders[j])
    ELSE 0

MarkedDoc(apt) ==
    [apt EXCEPT !.reminders[ReminderIndex(apt)] =
                    [@ EXCEPT !.sent = TRUE, !.sentAt = now]]

\* sendReminderForAppointment: the document it leaves in the store
sendReminderForAppointment(apt, emailOk) ==
    IF ~emailOk THEN apt
    ELSE IF ReminderIndex(apt) = 0 THEN apt
    ELSE IF ~SaveOk(MarkedDoc(apt)) THEN apt
    ELSE MarkedDoc(apt)

\* the outcome of a sweep: the appointments for which sendEmail resolved
DispatchResponse(delivered) ==
    [op |-> "dispatch", code |-> 0, delivered |-> delivered]

\* a sweep that stops at the first appointment whose sendEmail call rejects
checkAndSendReminders_abortOnFailure(failed) ==
    LET reached == {i \in PendingAppointments : \A j \in failed : i < j}
    IN  /\ Idle
        /\ failed \subseteq PendingAppointments
        /\ appointments' =
             [i \in Ids |->
                IF i \in reached
                THEN sendReminderForAppointment(appointments[i], TRUE)
                ELSE appointments[i]]
        /\ Reply(DispatchResponse(reached))

\* failed: the appointments of the result set whose sendEmail call rejects
checkAndSendReminders(failed) ==
    /\ Idle
    /\ failed \subseteq PendingAppointments
    /\ appointments' =
         [i \in Ids |->
            IF i \in PendingAppointments
            THEN sendReminderForAppointment(appointments[i], i \notin failed)
            ELSE appointments[i]]
    /\ Reply(DispatchResponse(PendingAppointments \ failed))

----------------------------------------------------------------------------
(* POST /api/admin/reminders/send -> ReminderJob.sendManualReminder *)

\* result.success of sendManualReminder
ManualSuccess(id) ==
    /\ id \in Ids
    /\ appointments[id].status \in ActiveStatuses

ManualCode(actor, id) ==
    IF AdminCode(actor) # 0 THEN 403
    ELSE IF ~ManualSuccess(id) THEN 400
    ELSE 200

\* the answer of the route, with the appointments for which sendEmail resolved
ManualResponse(code, delivered) ==
    [op |-> "manual", code |-> code, delivered |-> delivered]

sendManualReminder(actor, id, emailOk) ==
    /\ Idle
    /\ LET code == ManualCode(actor, id)
       IN  /\ appointments' =
                IF code = 200
                THEN [appointments EXCEPT
                        ![id] = sendReminderForAppointment(appointments[id], emailOk)]
                ELSE appointments
           /\ Reply(ManualResponse(code, IF code = 200 /\ emailOk THEN {id} ELSE {}))

----------------------------------------------------------------------------
(* ReminderJob.cleanupOldReminders, daily *)

ReminderRetentionDays == 7
NoShowGraceHours == 1

\* $pull of the reminders sent more than a week ago
PrunedReminders(apt) ==
    LET oneWeekAgo == now - ReminderRetentionDays * MinutesPerDay
    IN  SelectSeq(apt.reminders,
                  LAMBDA r : ~(r.sent /\ r.sentAt # NoDate /\ r.sentAt < oneWeekAgo))

\* the filter of the second updateMany
IsExpired_oneWeekAgo(apt) ==
    /\ DateInstant(apt.date) < now - ReminderRetentionDays * MinutesPerDay
    /\ apt.status \in ActiveStatuses

IsExpired(apt) ==
    /\ DateInstant(apt.date) < now - NoShowGraceHours * MinutesPerHour
    /\ apt.status \in ActiveStatuses

\* a cleanup whose second updateMany runs only when the first one modified nothing
CleanedDoc_oneUpdatePerRun(apt) ==
    IF PrunedReminders(apt) # apt.reminders
    THEN [apt EXCEPT !.reminders = PrunedReminders(apt)]
    ELSE IF IsExpired(apt) THEN [apt EXCEPT !.status = "no-show"] ELSE apt

CleanedDoc(apt) ==
    LET pruned == [apt EXCEPT !.reminders = PrunedReminders(apt)]
    IN  IF IsExpired(pruned) THEN [pruned EXCEPT !.status = "no-show"] ELSE pruned

\* a cleanup that runs the first updateMany only
cleanupOldReminders_pruneOnly ==
    /\ Idle
    /\ appointments' =
         [i \in Ids |->
            [appointments[i] EXCEPT !.reminders = PrunedReminders(appointments[i])]]
    /\ JobReply(Resp("cleanup", 0))

cleanupOldReminders ==
    /\ Idle
    /\ appointments' = [i \in Ids |-> CleanedDoc(appointments[i])]
    /\ JobReply(Resp("cleanup", 0))

----------------------------------------------------------------------------
(* Requests and job runs in flight *)

\* the create requests that can be in flight together
CreateRequests == {"post1", "post2"}
NoRequest == [user |-> NoUser, date |-> NoDate, time |-> NoString]

\* the dispatch runs that can be in flight together: two firings of the
\* 5-minute task and one manual reminder
SweepRuns == {"sweep1", "sweep2"}
ManualRuns == {"manual"}
DispatchRuns == SweepRuns \cup ManualRuns

\* POST /api/appointments up to the conflict query: the request is turned
\* away, or it goes on to build and save its document
conflictCheck(p, u, d, t) ==
    /\ creating[p] = NoRequest
    /\ creating' =
         IF CreateInputValid(d, t) /\ ~ExistingAppointment(d, t)
         THEN [creating EXCEPT ![p] = [user |-> u, date |-> d, time |-> t]]
         ELSE creating
    /\ UNCHANGED <<appointments, now, response, nwrites, schedulerVars,
                   dispatching, notifications, manualTriggers>>

\* a unique index on (date, time) of the active appointments
SlotIndexAdmits_unique(doc) == FindActiveAt(doc.date, doc.time, 0) = {}

\* the indexes of the schema: none is unique, every document is admitted
SlotIndexAdmits(doc) == TRUE

\* POST /api/appointments from new Appointment(...) to appointment.save()
saveAppointment(p) ==
    /\ creating[p] # NoRequest
    /\ Len(appointments) < MaxAppts
    /\ LET doc == CreateDoc(creating[p].user, creating[p].date, creating[p].time)
       IN  appointments' =
             IF SaveOk(doc) /\ SlotIndexAdmits(doc)
             THEN Append(appointments, doc)
             ELSE appointments
    /\ creating' = [creating EXCEPT ![p] = NoRequest]
    /\ UNCHANGED <<now, response, nwrites, schedulerVars,
                   dispatching, notifications, manualTriggers>>

\* a loaded document waiting for sendReminderForAppointment; mailedAt is the
\* `now` of that call once sendEmail has resolved
Loaded(i) == [id |-> i, doc |-> appointments[i], mailedAt |-> NoDate]

\* the dispatch runs in flight
InFlight == {p \in DispatchRuns : dispatching[p] # <<>>}

\* checkAndSendReminders up to the result of its find()
findPending(p) ==
    /\ dispatching[p] = <<>>
    /\ Cardinality(InFlight) < MaxInFlight
    /\ dispatching' =
         [dispatching EXCEPT ![p] =
            SelectSeq([i \in Ids |-> Loaded(i)],
                      LAMBDA it : it.id \in PendingAppointments)]
    /\ UNCHANGED <<appointments, now, response, nwrites, schedulerVars,
                   creating, notifications, manualTriggers>>

\* sendManualReminder up to its status check
findByIdForReminder(p, id) ==
    /\ dispatching[p] = <<>>
    /\ Cardinality(InFlight) < MaxInFlight
    /\ IF ManualSuccess(id)
       THEN /\ manualTriggers[id] < MaxNotifications
            /\ manualTriggers' = [manualTriggers EXCEPT ![id] = @ + 1]
            /\ dispatching' = [dispatching EXCEPT ![p] = <<Loaded(id)>>]
       ELSE UNCHANGED <<manualTriggers, dispatching>>
    /\ UNCHANGED <<appointments, now, response, nwrites, schedulerVars,
                   creating, notifications>>

\* sendReminderForAppointment up to the end of `await sendEmail(...)`: the
\* service accepts the e-mail, or the call rejects and the catch ends the item
sendEmail(p, ok) ==
    /\ dispatching[p] # <<>>
    /\ Head(dispatching[p]).mailedAt = NoDate
    /\ LET it == Head(dispatching[p])
       IN  IF ok
           THEN /\ notifications[it.id] < MaxNotifications
                /\ notifications' = [notifications EXCEPT ![it.id] = @ + 1]
                /\ dispatching' =
                     [dispatching EXCEPT ![p] =
                        <<[it EXCEPT !.mailedAt = now]>> \o Tail(dispatching[p])]
           ELSE /\ notifications' = notifications
                /\ dispatching' = [dispatching EXCEPT ![p] = Tail(dispatching[p])]
    /\ UNCHANGED <<appointments, now, response, nwrites, schedulerVars,
                   creating, manualTriggers>>

\* reminders.findIndex(r => !r.sent && r.scheduledFor <= now) on the loaded
\* document, 0 for -1
FirstDueAt(doc, at) ==
    LET Due(k) == ~doc.reminders[k].sent /\ doc.reminders[k].scheduledFor <= at
    IN  IF \E k \in 1..Len(doc.reminders) : Due(k)
        THEN CHOOSE k \in 1..Len(doc.reminders) :
                Due(k) /\ \A j \in 1..(k - 1) : ~Due(j)
        ELSE 0

\* sendReminderForAppointment after sendEmail: the record is marked on the
\* loaded document and save() validates that document and writes the
\* modified paths
markReminder(p) ==
    /\ dispatching[p] # <<>>
    /\ Head(dispatching[p]).mailedAt # NoDate
    /\ LET it == Head(dispatching[p])
           k == FirstDueAt(it.doc, it.mailedAt)
           marked == [it.doc EXCEPT !.reminders[k] =
                                        [@ EXCEPT !.sent = TRUE, !.sentAt = now]]
       IN  appointments' =
             IF k = 0 THEN appointments
             ELSE IF ~SaveOk(marked) THEN appointments
             ELSE [appointments EXCEPT ![it.id].reminders[k] = marked.reminders[k]]
    /\ dispatching' = [dispatching EXCEPT ![p] = Tail(dispatching[p])]
    /\ UNCHANGED <<now, response, nwrites, schedulerVars,
                   creating, notifications, manualTriggers>>

----------------------------------------------------------------------------
(* ReminderJob: constructor, start, stop, getReminderStats *)

DispatchJob == "*/5 * * * *"
CleanupJob == "0 2 * * *"

\* start() without the isRunning guard
start_unguarded ==
    /\ jobs' = jobs \o <<DispatchJob, CleanupJob>>
    /\ isRunning' = TRUE
    /\ UNCHANGED <<appointments, now, response, nwrites, flightVars>>

start ==
    /\ IF isRunning
       THEN UNCHANGED schedulerVars
       ELSE /\ jobs' = jobs \o <<DispatchJob, CleanupJob>>
            /\ isRunning' = TRUE
    /\ UNCHANGED <<appointments, now, response, nwrites, flightVars>>

stop ==
    /\ IF ~isRunning
       THEN UNCHANGED schedulerVars
       ELSE /\ jobs' = <<>>
            /\ isRunning' = FALSE
    /\ UNCHANGED <<appointments, now, response, nwrites, flightVars>>

StatsResponse ==
    [op |-> "stats", code |-> 0,
     pendingReminders |-> Cardinality(PendingAppointments),
     isRunning |-> isRunning]

getReminderStats ==
    /\ Idle
    /\ appointments' = appointments
    /\ Reply(StatsResponse)

\* a cron task that is registered and running fires
Fires(job) == \E k \in 1..Len(jobs) : jobs[k] = job

----------------------------------------------------------------------------
(* The clock *)

\* the caller receives the result
Deliver ==
    /\ response # NoResponse
    /\ response' = NoResponse
    /\ UNCHANGED <<appointments, now, nwrites, schedulerVars, flightVars>>

Tick ==
    /\ Idle
    /\ now < StartOfClock + MaxTicks * TickStep
    /\ now' = now + TickStep
    /\ UNCHANGED <<appointments, response, nwrites, schedulerVars, flightVars>>

----------------------------------------------------------------------------

Init ==
    /\ appointments = <<>>
    /\ now = StartOfClock
    /\ response = NoResponse
    /\ nwrites = 0
    /\ isRunning = TRUE
    /\ jobs = <<DispatchJob, CleanupJob>>
    /\ creating = [p \in CreateRequests |-> NoRequest]
    /\ dispatching = [p \in DispatchRuns |-> <<>>]
    /\ notifications = [i \in 1..MaxAppts |-> 0]
    /\ manualTriggers = [i \in 1..MaxAppts |-> 0]

\* the ids that requests name: the stored ones and one that is not stored
RequestIds == 1..(Len(appointments) + 1)

\* The clients are interchangeable: one of them books, and the other one is
\* the user who asks for appointments that are not theirs.
\* The access checks run before the body of a request is read: a request that
\* they turn away is represented by one body.  An update by the admin is the
\* same step as the update by the owner.  Here the daily task is held to
\* MaxWrites like the requests.
Next ==
    \/ \E u \in CreateUsers, d \in Dates, t \in TimeInputs : CreateAppointment(u, d, t)
    \/ \E a \in AdminRouteActors, u \in AdminCreateUsers, d \in Dates,
          t \in AdminCreateTimeInputs, s \in AdminCreateStatusInputs :
            /\ AdminCode(a) # 0 => (d = 1 /\ t = T0900 /\ s = "")
            /\ AdminCreateAppointment(a, u, d, t, s)
    \/ \E a \in Clients, id \in RequestIds, d \in Dates \cup {NoDate},
          t \in UpdateTimeInputs \cup {NoString} :
            /\ AccessCode(a, id) # 0 => (d = 2 /\ t = T2100)
            /\ UpdateAppointment(a, id, d, t)
    \/ \E a \in Users, id \in RequestIds, r \in ReasonInputs :
            /\ AccessCode(a, id) # 0 => r = "ill"
            /\ CancelAppointment(a, id, r)
    \/ \E a \in AdminRouteActors, id \in RequestIds : ConfirmAppointment(a, id)
    \/ \E a \in AdminRouteActors, id \in RequestIds, n \in NotesInputs :
          CompleteAppointment(a, id, n)
    \/ \E a \in AdminRouteActors, id \in RequestIds, s \in StatusInputs :
            /\ AdminCode(a) # 0 => s = "completed"
            /\ AdminSetStatus(a, id, s)
    \/ \E a \in Users, id \in RequestIds : GetAppointment(a, id)
    \/ \E d \in Dates : GetAvailableSlots(d)
    \/ \E a \in AdminRouteActors, id \in RequestIds, ok \in BOOLEAN :
            /\ ManualCode(a, id) # 200 => ok
            /\ sendManualReminder(a, id, ok)
    \/ \E failed \in SUBSET PendingAppointments : checkAndSendReminders(failed)
    \/ /\ cleanupOldReminders
       /\ nwrites = MaxWrites => appointments' = appointments
    \/ Deliver
    \/ Tick

Spec == Init /\ [][Next]_vars

\* cron fires the dispatch sweep every 5 minutes, whatever else the server
\* does, and a response that is on its way arrives
FairSpec ==
    /\ Spec
    /\ WF_vars(Deliver)
    /\ SF_vars(checkAndSendReminders({}))

\* the daily task fires again and again while the scheduler runs, however
\* many requests have been served
ExpiryNext ==
    \/ Next
    \/ cleanupOldReminders

ExpirySpec ==
    /\ Init
    /\ [][ExpiryNext]_vars
    /\ WF_vars(Deliver)
    /\ SF_vars(cleanupOldReminders)

----------------------------------------------------------------------------
(* The server with its awaits: requests and job runs interleave *)

\* the slots that the concurrent requests ask for
ConcurrentTimeInputs == {T0900, T2100}

\* The requests and the firings are interchangeable: the second one is the
\* one that starts while the first one is in flight.

\* the bookings: create requests between their check and their save, and the
\* cancellations that free a slot
BookingNext ==
    \/ \E p \in CreateRequests, u \in CreateUsers, d \in Dates, t \in ConcurrentTimeInputs :
            /\ p = "post2" => creating["post1"] # NoRequest
            /\ conflictCheck(p, u, d, t)
    \/ \E p \in CreateRequests : saveAppointment(p)
    \/ \E u \in CreateUsers, id \in Ids : CancelAppointment(u, id, "ill")
    \/ Deliver
    \/ Tick

BookingSpec == Init /\ [][BookingNext]_vars

\* the reminders: firings of the 5-minute task and manual reminders between
\* their load, their send and their save, and the requests that book and
\* complete appointments
DispatchNext ==
    \/ \E u \in CreateUsers, d \in Dates, t \in {T0900} : CreateAppointment(u, d, t)
    \/ \E p \in SweepRuns :
            /\ p = "sweep2" => dispatching["sweep1"] # <<>>
            /\ findPending(p)
    \/ \E p \in ManualRuns, id \in RequestIds : findByIdForReminder(p, id)
    \/ \E p \in DispatchRuns, ok \in BOOLEAN : sendEmail(p, ok)
    \/ \E p \in DispatchRuns : markReminder(p)
    \/ \E id \in Ids : CompleteAppointment("admin", id, "")
    \/ Deliver
    \/ Tick

DispatchSpec == Init /\ [][DispatchNext]_vars

----------------------------------------------------------------------------
(* The cleanup on a store that has been in use for more than a week *)

\* the clock of a cleanup run: 7 days after the first reminders, and a day later
CleanupDays == {8, 9}

\* the day of the booking, and the day a booking was moved to
OldDates == {2, 9}

\* the reminder records of an appointment booked on day 0 for day 2 at 09:00,
\* with the first one dispatched at its time or not
OldReminders ==
    LET startsAt == DateInstant(2) + 9 * MinutesPerHour
        at24h == startsAt - ReminderOffset24h * MinutesPerHour
        at2h == startsAt - ReminderOffset2h * MinutesPerHour
    IN  {<<Reminder(at24h), Reminder(at2h)>>,
         <<[sent |-> TRUE, sentAt |-> at24h, scheduledFor |-> at24h], Reminder(at2h)>>}

OldDocs ==
    {NewAppointment("alice", d, T0900, s, rems) :
        d \in OldDates, s \in Statuses, rems \in OldReminders}

OldStores ==
    {<<>>} \cup {<<a>> : a \in OldDocs} \cup {<<a, b>> : a \in OldDocs, b \in OldDocs}

CleanupInit ==
    /\ appointments \in OldStores
    /\ now \in {StartOfClock + k * TickStep : k \in CleanupDays}
    /\ response = NoResponse
    /\ nwrites = 0
    /\ isRunning = TRUE
    /\ jobs = <<DispatchJob, CleanupJob>>
    /\ creating = [p \in CreateRequests |-> NoRequest]
    /\ dispatching = [p \in DispatchRuns |-> <<>>]
    /\ notifications = [i \in 1..MaxAppts |-> 0]
    /\ manualTriggers = [i \in 1..MaxAppts |-> 0]

CleanupNext ==
    \/ cleanupOldReminders
    \/ Deliver

CleanupSpec == CleanupInit /\ [][CleanupNext]_vars

----------------------------------------------------------------------------
(* The scheduler object from its construction on *)

\* new ReminderJob(): nothing registered, and the store of a fresh deployment
SchedulerInit ==
    /\ appointments = <<>>
    /\ now = StartOfClock
    /\ response = NoResponse
    /\ nwrites = 0
    /\ isRunning = FALSE
    /\ jobs = <<>>
    /\ creating = [p \in CreateRequests |-> NoRequest]
    /\ dispatching = [p \in DispatchRuns |-> <<>>]
    /\ notifications = [i \in 1..MaxAppts |-> 0]
    /\ manualTriggers = [i \in 1..MaxAppts |-> 0]

\* start() and stop() in any order; the two tasks run while they are registered
SchedulerNext ==
    \/ start
    \/ stop
    \/ getReminderStats
    \/ \E u \in CreateUsers, d \in Dates, t \in TimeInputs : CreateAppointment(u, d, t)
    \/ /\ Fires(DispatchJob)
       /\ \E failed \in SUBSET PendingAppointments : checkAndSendReminders(failed)
    \/ /\ Fires(CleanupJob)
       /\ cleanupOldReminders
    \/ Deliver
    \/ Tick

SchedulerSpec == SchedulerInit /\ [][SchedulerNext]_vars

----------------------------------------------------------------------------
(* Properties *)

TerminalStatuses == {"completed", "cancelled", "no-show"}

HourOf(t) == ParseInt(SplitHours(t))

\* C1: at most one appointment whose status is not cancelled occupies any
\* (date, time) pair.
C1_OneNonCancelledPerSlot ==
    \A i \in Ids : \A j \in Ids :
        (/\ i # j
         /\ appointments[i].status # "cancelled"
         /\ appointments[j].status # "cancelled")
        => ~(/\ appointments[i].date = appointments[j].date
             /\ appointments[i].time = appointments[j].time)

\* C2: createAppointment(date, time) answers 409 and stores nothing
\* whenever the store holds an appointment at that (date, time) whose status
\* is anything other than cancelled.
C2_ConflictWithNonCancelled ==
    [][response'.op = "create" =>
      \A u \in Clients : \A d \in Dates : \A t \in TimeInputs :
        (/\ CreateAppointment(u, d, t)
         /\ \E i \in Ids : /\ appointments[i].date = d
                           /\ appointments[i].time = t
                           /\ appointments[i].status # "cancelled")
        => (response'.code = 409 /\ appointments' = appointments)]_vars

\* C3: once the status of an appointment is completed, cancelled or no-show,
\* no step changes it.
C3_TerminalIsFinal ==
    [][\A i \in Ids :
        appointments[i].status \in TerminalStatuses
        => appointments'[i].status = appointments[i].status]_vars

\* C4: a cancel request (valid reason, owner or admin) succeeds exactly when
\* the status is scheduled and at least 24 hours remain until the start, the
\* boundary included; otherwise it answers 403 and leaves the document alone.
C4_CancelWindow ==
    [][response'.op = "cancel" =>
      \A a \in Users : \A id \in Ids : \A r \in ReasonInputs :
        (/\ AccessCode(a, id) = 0
         /\ r # ""
         /\ CancelAppointment(a, id, r))
        => IF /\ appointments[id].status = "scheduled"
              /\ Datetime(appointments[id]) - now >= 24 * MinutesPerHour
           THEN /\ response'.code = 200
                /\ appointments'[id].status = "cancelled"
                /\ appointments'[id].cancellationReason = r
                /\ appointments'[id].cancelledAt = now
           ELSE /\ response'.code = 403
                /\ appointments'[id] = appointments[id]]_vars

\* the date or time that an update request would give appointment id
NewDate(id, d) == IF d = NoDate THEN appointments[id].date ELSE d
NewTime(id, t) == IF t = NoString THEN appointments[id].time ELSE t

\* C5: an update that changes date or time (well-formed, owner or admin) is
\* let past the policy check exactly when the status is scheduled and at
\* least 12 hours remain until the current start, the boundary included; a
\* refused one answers 403 and leaves date and time alone.
C5_RescheduleWindow ==
    [][response'.op = "update" =>
      \A a \in Users : \A id \in Ids : \A d \in Dates \cup {NoDate} :
       \A t \in UpdateTimeInputs \cup {NoString} :
        (/\ AccessCode(a, id) = 0
         /\ UpdateInputValid(d, t)
         /\ (d # NoDate \/ t # NoString)
         /\ UpdateAppointment(a, id, d, t))
        => /\ response'.code # 403
              <=> (/\ appointments[id].status = "scheduled"
                   /\ Datetime(appointments[id]) - now >= 12 * MinutesPerHour)
           /\ response'.code = 403
              => (/\ appointments'[id].date = appointments[id].date
                  /\ appointments'[id].time = appointments[id].time)]_vars

C7_ConfirmOnlyFromScheduled ==
    [][response'.op = "confirm" =>
      \A a \in Admins : \A id \in Ids :
        ConfirmAppointment(a, id)
        => IF appointments[id].status = "scheduled"
           THEN appointments'[id].status = "confirmed"
           ELSE /\ response'.code # 200
                /\ appointments'[id].status = appointments[id].status]_vars

\* C8: a complete by an admin on a scheduled or confirmed appointment
\* succeeds, sets the status to completed and records the session notes,
\* also when the start has passed.
C8_CompleteFromActive ==
    [][response'.op = "complete" =>
      \A a \in Admins : \A id \in Ids : \A n \in NotesInputs :
        (/\ CompleteAppointment(a, id, n)
         /\ appointments[id].status \in {"scheduled", "confirmed"})
        => /\ response'.code = 200
           /\ appointments'[id].status = "completed"
           /\ appointments'[id].sessionNotes = n]_vars

\* C9: a create with a date that is not strictly in the future, or with a
\* start hour below 9 or at or after 22, is answered with a validation error
\* (400) and leaves the store unchanged.
C9_CreateValidation ==
    [][response'.op = "create" =>
      \A u \in Clients : \A d \in Dates : \A t \in TimeInputs :
        (/\ CreateAppointment(u, d, t)
         /\ MatchesTime(t)
         /\ \/ d * MinutesPerDay <= now
            \/ HourOf(t) < 9
            \/ HourOf(t) >= 22)
        => (response'.code = 400 /\ appointments' = appointments)]_vars

\* minutes since midnight of an "HH:MM" slot
SlotMinutes(slot) ==
    ParseInt(SplitHours(slot)) * MinutesPerHour + ParseInt(SplitMinutes(slot))

\* C10: for a date with no active appointment, the answer of available-slots
\* is the 15 start times from 09:00 at a 50 minute stride, ascending, before
\* 22:00.
C10_FullTemplate ==
    (/\ response.op = "slots"
     /\ ~\E i \in Ids : /\ appointments[i].date = response.date
                        /\ appointments[i].status \in {"scheduled", "confirmed"})
        => LET slots == response.availableSlots
           IN  /\ Len(slots) = 15
               /\ slots[1] = T0900
               /\ \A k \in 1..(Len(slots) - 1) :
                    SlotMinutes(slots[k + 1]) = SlotMinutes(slots[k]) + 50
               /\ \A k \in 1..Len(slots) :
                    SlotMinutes(slots[k]) < 22 * MinutesPerHour

\* C11: in the answer of available-slots for a date, no slot has the time of
\* day of a scheduled or confirmed appointment of that date, however its time
\* string is written; a template slot whose time of day is that of a cancelled
\* appointment and of no active one is in the answer.
C11_BookedSlotsAbsent ==
    response.op = "slots" =>
      \A i \in Ids :
        appointments[i].date = response.date =>
          LET T == SlotMinutes(appointments[i].time)
              inAnswer == \E k \in 1..Len(response.availableSlots) :
                              SlotMinutes(response.availableSlots[k]) = T
              inTemplate == \E k \in 1..Len(AllSlots) : SlotMinutes(AllSlots[k]) = T
              activeAtT == \E j \in Ids :
                              /\ appointments[j].date = response.date
                              /\ SlotMinutes(appointments[j].time) = T
                              /\ appointments[j].status \in {"scheduled", "confirmed"}
          IN  /\ appointments[i].status \in {"scheduled", "confirmed"} => ~inAnswer
              /\ (appointments[i].status = "cancelled" /\ ~activeAtT /\ inTemplate)
                    => inAnswer

\* C12: the appointment that a successful create stores has, for each of the
\* offsets 24 hours and 2 hours, one unsent reminder record scheduled at
\* start - offset when that instant is strictly after the creation instant,
\* and none otherwise; it has no other reminder record.
C12_RemindersAtCreation ==
    [][(response'.op = "create" /\ response'.code = 201) =>
        LET apt == appointments'[Len(appointments')]
            startsAt == Datetime(apt)
            At(k) == {j \in 1..Len(apt.reminders) :
                        apt.reminders[j].scheduledFor = startsAt - k * MinutesPerHour}
        IN  /\ Len(appointments') = Len(appointments) + 1
            /\ \A k \in {24, 2} :
                  IF startsAt - k * MinutesPerHour > now
                  THEN /\ Cardinality(At(k)) = 1
                       /\ \A j \in At(k) : /\ apt.reminders[j].sent = FALSE
                                            /\ apt.reminders[j].sentAt = NoDate
                  ELSE At(k) = {}
            /\ \A j \in 1..Len(apt.reminders) : j \in At(24) \cup At(2)]_vars

\* a create has stored an appointment starting exactly 24 hours after the
\* creation instant, with the 2 hour reminder only
C12_Witness ==
    /\ response = [op |-> "create", code |-> 201]
    /\ Len(appointments) > 0
    /\ LET apt == appointments[Len(appointments)]
       IN  /\ Datetime(apt) - now = 24 * MinutesPerHour
           /\ Len(apt.reminders) = 1
           /\ apt.reminders[1].scheduledFor = Datetime(apt) - 2 * MinutesPerHour

\* reminder record k of appointment i exists, is unsent and is due
DueUnsent(i, k) ==
    /\ i \in Ids
    /\ k \in 1..Len(appointments[i].reminders)
    /\ IsDue(appointments[i].reminders[k])

\* C13: after a dispatch sweep in which every delivery succeeds, every active
\* appointment that had an unsent reminder record due has been sent a
\* notification and has that record marked sent with a sentAt, and every
\* record scheduled after now is still unsent with no sentAt.
C13_SweepMarksDue ==
    [][(response'.op = "dispatch" /\ response'.delivered = PendingAppointments) =>
        \A i \in Ids : \A k \in 1..Len(appointments[i].reminders) :
            /\ (DueUnsent(i, k) /\ appointments[i].status \in {"scheduled", "confirmed"})
                  => /\ i \in response'.delivered
                     /\ appointments'[i].reminders[k].sent = TRUE
                     /\ appointments'[i].reminders[k].sentAt # NoDate
            /\ appointments[i].reminders[k].scheduledFor > now
                  => /\ appointments'[i].reminders[k].sent = FALSE
                     /\ appointments'[i].reminders[k].sentAt = NoDate]_vars

\* a sweep has just delivered the notification of active appointment i while
\* its record k was due and unsent before the sweep or is so after it
DeliveredWhileDue(i, k) ==
    /\ response.op = "dispatch"
    /\ i \in response.delivered
    /\ DueUnsent(i, k)
    /\ appointments[i].status \in {"scheduled", "confirmed"}

\* reminder record k of appointment i exists and is marked sent
MarkedSent(i, k) ==
    /\ i \in Ids
    /\ k \in 1..Len(appointments[i].reminders)
    /\ appointments[i].reminders[k].sent

\* C14: a sweep leaves every appointment whose delivery failed as it was (no
\* record marked, the due record still due and unsent for the next sweep),
\* and a due record of an active appointment whose notification a sweep has
\* delivered is eventually marked sent.
C14_FailureKeepsRetrySuccessMarks ==
    /\ [][response'.op = "dispatch" =>
            \A i \in PendingAppointments \ response'.delivered :
                appointments'[i] = appointments[i]]_vars
    /\ \A i \in 1..MaxAppts : \A k \in 1..2 :
            DeliveredWhileDue(i, k)
                ~> MarkedSent(i, k)

\* C15: after a cleanup sweep, every appointment that was scheduled or
\* confirmed and whose end (start plus duration) lies more than one hour
\* before now has the status no-show.
C15_CleanupMarksNoShow ==
    [][response'.op = "cleanup" =>
        \A i \in Ids :
            (/\ appointments[i].status \in {"scheduled", "confirmed"}
             /\ EndTime(appointments[i]) < now - MinutesPerHour)
            => appointments'[i].status = "no-show"]_vars

\* a cleanup sweep has run with an appointment marked no-show whose end lies
\* more than one hour back
C15_Witness ==
    /\ response.op = "cleanup"
    /\ \E i \in Ids : /\ appointments[i].status = "no-show"
                       /\ EndTime(appointments[i]) < now - MinutesPerHour

\* C16: a cleanup sweep leaves the status of every appointment whose end is
\* not more than one hour before now as it was.
C16_CleanupKeepsRecent ==
    [][response'.op = "cleanup" =>
        \A i \in Ids :
            ~(EndTime(appointments[i]) < now - MinutesPerHour)
            => appointments'[i].status = appointments[i].status]_vars

\* C17: get, update and cancel requests of a non-admin user on an appointment
\* of another user are rejected and leave the store as it was; confirm and
\* complete requests of any non-admin user, the owner included, are rejected
\* and leave the store as it was.
C17_ActorGating ==
    [][\A u \in Clients : \A id \in Ids :
        /\ appointments[id].user # u =>
            /\ (response'.op = "get" /\ GetAppointment(u, id))
                    => (response'.code = 403 /\ appointments' = appointments)
            /\ response'.op = "update" =>
                    \A d \in Dates \cup {NoDate} : \A t \in UpdateTimeInputs \cup {NoString} :
                        UpdateAppointment(u, id, d, t)
                        => (response'.code = 403 /\ appointments' = appointments)
            /\ response'.op = "cancel" =>
                    \A r \in ReasonInputs :
                        CancelAppointment(u, id, r)
                        => (response'.code = 403 /\ appointments' = appointments)
        /\ (response'.op = "confirm" /\ ConfirmAppointment(u, id))
                => (response'.code = 403 /\ appointments' = appointments)
        /\ response'.op = "complete" =>
                \A n \in NotesInputs :
                    CompleteAppointment(u, id, n)
                    => (response'.code = 403 /\ appointments' = appointments)]_vars

\* an update of the only stored appointment was answered 403 although the
\* appointment is scheduled and more than 12 hours ahead: the request came
\* from a user who does not own it
C17_Witness ==
    /\ response = [op |-> "update", code |-> 403]
    /\ Len(appointments) = 1
    /\ appointments[1].status = "scheduled"
    /\ Datetime(appointments[1]) - now > 12 * MinutesPerHour

\* C18: every appointment that enters the store enters it with the status
\* scheduled, through the client route and through the admin route.
C18_CreatedScheduled ==
    [][Len(appointments') > Len(appointments)
        => appointments'[Len(appointments')].status = "scheduled"]_vars

\* C19: a manual reminder for an id that is not stored, or for an appointment
\* that is not scheduled or confirmed, fails, delivers nothing and changes
\* nothing; for an active appointment it reports success only when the
\* notification was delivered, and marks nothing when it was not.
C19_ManualReminder ==
    [][response'.op = "manual" =>
        \A id \in RequestIds :
            (\E ok \in BOOLEAN : sendManualReminder("admin", id, ok))
            => IF id \in Ids /\ appointments[id].status \in {"scheduled", "confirmed"}
               THEN /\ response'.code = 200 => id \in response'.delivered
                    /\ id \notin response'.delivered => appointments' = appointments
               ELSE /\ response'.code # 200
                    /\ response'.delivered = {}
                    /\ appointments' = appointments]_vars

\* C20: the start hour of every stored appointment is from 9 through 21.
C20_BusinessHours ==
    \A i \in Ids : HourOf(appointments[i].time) \in 9..21

\* C22: a dispatch sweep sends a notification for an appointment only if one
\* single reminder record of it is both unsent and due at the sweep; an
\* appointment whose 24h record is sent and whose 2h record is not yet due
\* gets none.
C22_DeliveredOnlyWhenDue ==
    [][response'.op = "dispatch" =>
        \A i \in response'.delivered :
            \E k \in 1..Len(appointments[i].reminders) : DueUnsent(i, k)]_vars

\* the reminder records of appointment i that the step marks sent
NewlyMarked(i) ==
    {k \in 1..Len(appointments[i].reminders) :
        /\ ~appointments[i].reminders[k].sent
        /\ appointments'[i].reminders[k].sent}

\* C23: for every appointment that a dispatch sweep notifies, the sweep marks
\* exactly one reminder record sent, and that record is the first one in
\* record order that was due and unsent; a second due and unsent record
\* stays unsent.
C23_MarksExactlyFirstDue ==
    [][response'.op = "dispatch" =>
        \A i \in response'.delivered :
            /\ Cardinality(NewlyMarked(i)) = 1
            /\ \A k \in NewlyMarked(i) :
                    /\ DueUnsent(i, k)
                    /\ \A j \in 1..(k - 1) : ~DueUnsent(i, j)]_vars

\* C24: a dispatch sweep handles every appointment of its result set on its
\* own: whichever deliveries or saves fail, the sweep completes, every other
\* appointment of the result set is notified, and each document is left as
\* its own dispatch leaves it.
C24_PerItemIsolation ==
    [][response'.op = "dispatch" =>
        \A failed \in SUBSET PendingAppointments :
            checkAndSendReminders(failed) =>
                /\ response'.delivered = PendingAppointments \ failed
                /\ \A i \in PendingAppointments :
                        appointments'[i] =
                            sendReminderForAppointment(appointments[i], i \notin failed)
                /\ \A i \in Ids \ PendingAppointments :
                        appointments'[i] = appointments[i]]_vars

\* a sweep has just notified one appointment of its result set although the
\* dispatch of another one, which is still pending, failed
C24_Witness ==
    /\ response.op = "dispatch"
    /\ \E i \in PendingAppointments, j \in response.delivered :
            /\ i < j
            /\ i \notin response.delivered

\* C28: after a successful update that changes the date or the time of an
\* appointment, every unsent reminder record of it is scheduled 24 hours or
\* 2 hours before the new start.
C28_RemindersFollowReschedule ==
    [][(response'.op = "update" /\ response'.code = 200) =>
        \A id \in Ids :
            (\/ appointments'[id].date # appointments[id].date
             \/ appointments'[id].time # appointments[id].time)
            => \A k \in 1..Len(appointments'[id].reminders) :
                LET r == appointments'[id].reminders[k]
                    startsAt == Datetime(appointments'[id])
                IN  ~r.sent =>
                        /\ r.scheduledFor \in
                             {startsAt - ReminderOffset24h * MinutesPerHour,
                              startsAt - ReminderOffset2h * MinutesPerHour}
                        /\ r.scheduledFor < startsAt]_vars

\* C27: the scheduler is idle or running: isRunning is true exactly when the
\* two tasks (dispatch and cleanup) are registered and false exactly when
\* none is; start() while running and stop() while idle change nothing; the
\* isRunning that the statistics report is the state.
C27_TwoStateScheduler ==
    /\ [](/\ isRunning <=> jobs = <<DispatchJob, CleanupJob>>
          /\ ~isRunning <=> jobs = <<>>)
    /\ [][/\ (isRunning /\ start) => UNCHANGED schedulerVars
          /\ (~isRunning /\ stop) => UNCHANGED schedulerVars
          /\ getReminderStats => response'.isRunning = isRunning]_vars

\* the statistics report a running scheduler that was started, stopped and
\* started again while appointments were stored
C27_Witness ==
    /\ response.op = "stats"
    /\ response.isRunning
    /\ Len(jobs) = 2
    /\ appointments # <<>>

\* appointment i is active and ended more than one hour ago
Overdue(i) ==
    /\ i \in Ids
    /\ appointments[i].status \in {"scheduled", "confirmed"}
    /\ EndTime(appointments[i]) + 1 * MinutesPerHour < now

\* C26: while the cleanup task keeps firing, an appointment that is scheduled
\* or confirmed and ended more than one hour ago does not stay active: it
\* leaves the active statuses, as no-show unless a request moves it first.
C26_OverdueBecomesNoShow ==
    \A i \in 1..MaxAppts :
        Overdue(i) ~> (i \in Ids /\ appointments[i].status \notin {"scheduled", "confirmed"})

\* the cleanup has just run and an appointment that ended more than one hour
\* ago is a no-show
C26_Witness ==
    /\ response.op = "cleanup"
    /\ \E i \in Ids :
            /\ appointments[i].status = "no-show"
            /\ EndTime(appointments[i]) + 1 * MinutesPerHour < now

\* C25: the cleanup is idempotent: on the store that a cleanup run has just
\* left, a second run at the same clock changes no status and removes no
\* reminder record; it leaves every document as it is.
C25_CleanupIdempotent ==
    response.op = "cleanup" =>
        \A i \in Ids : CleanedDoc(appointments[i]) = appointments[i]

\* a cleanup has just removed a reminder record of an appointment and marked
\* the appointment a no-show
C25_Witness ==
    /\ response.op = "cleanup"
    /\ \E i \in Ids :
            /\ Len(appointments[i].reminders) = 1
            /\ appointments[i].status = "no-show"
            /\ appointments[i].date = 9

\* C21: the conflict check and the save of a create request are two steps,
\* and nothing at the store stands between them: a request that passed the
\* check stores its appointment, as scheduled, whenever its document
\* validates, whatever was stored since the check; so two requests for one
\* free slot can both pass the check and both be stored.
C21_CheckedRequestIsStored ==
    [][\A p \in CreateRequests :
        (/\ creating[p] # NoRequest
         /\ SaveOk(CreateDoc(creating[p].user, creating[p].date, creating[p].time))
         /\ saveAppointment(p))
        => /\ Len(appointments') = Len(appointments) + 1
           /\ appointments'[Len(appointments')].status = "scheduled"
           /\ appointments'[Len(appointments')].date = creating[p].date
           /\ appointments'[Len(appointments')].time = creating[p].time]_vars

\* two appointments are stored as scheduled for one date and time
C21_Witness ==
    \E i \in Ids, j \in Ids :
        /\ i < j
        /\ appointments[i].status = "scheduled"
        /\ appointments[j].status = "scheduled"
        /\ appointments[i].date = appointments[j].date
        /\ appointments[i].time = appointments[j].time

\* the runs that have sent the notification of appointment i and have not yet
\* come to mark its record
Unsettled(i) ==
    {p \in DispatchRuns :
        /\ dispatching[p] # <<>>
        /\ Head(dispatching[p]).id = i
        /\ Head(dispatching[p]).mailedAt # NoDate}

\* C29: the number of notifications delivered for an appointment never
\* exceeds the number of its reminder records marked sent plus the number of
\* manual reminders issued for it, the runs that are between their send and
\* their save apart.
C29_AtMostOncePerRecord ==
    \A i \in Ids :
        notifications[i] <=
            Cardinality({k \in 1..Len(appointments[i].reminders) :
                            appointments[i].reminders[k].sent})
            + manualTriggers[i]
            + Cardinality(Unsettled(i))

\* C30: no notification is sent for an appointment whose stored status at
\* the moment of the send is cancelled, completed or no-show, also when the
\* status was committed after the run loaded the appointment; and the save
\* that marks the reminder record leaves the stored status as it is.
C30_NoDispatchForTerminal ==
    [][\A p \in DispatchRuns :
        /\ sendEmail(p, TRUE) =>
                appointments[Head(dispatching[p]).id].status
                    \notin {"cancelled", "completed", "no-show"}
        /\ markReminder(p) =>
                \A i \in Ids : appointments'[i].status = appointments[i].status]_vars

=============================================================================
